---- MODULE Spec2Model ----
(***************************************************************************)
(* pidcat (Rust): the per-line pipeline of src/bin/main.rs.                *)
(*                                                                         *)
(* Text is modelled as a sequence of symbols.  A symbol stands for one     *)
(* character or for a run of ordinary characters that no pattern of the    *)
(* program splits ("com.a", "Manager").  String operations of the source   *)
(* (contains, find, starts_with, ==) are computed on these sequences.      *)
(* Option<T> is a sequence of length 0 (None) or 1 (Some).                 *)
(*                                                                         *)
(* A log line is a record  [head, msg]:                                    *)
(*   head.k = "rec"  the text  <level>/<tag>( <pid>):<space>               *)
(*   head.k = "txt"  some text that is not of that shape and ends in ": "  *)
(*   head.k = "nil"  no text                                               *)
(*   msg.k  = "plain"     hello                                            *)
(*            "native"    ... nativeGetEnabledTags ...                     *)
(*            "start"     Start proc <pid>:<pkg>/u0a1 for activity {tgt}   *)
(*            "startnat"  the same with nativeGetEnabledTags in the target *)
(*            "ugid"      Start proc <pkg> for service tgt: pid=<pid>      *)
(*                        uid=10001 gids={1}                               *)
(*            "dalvik"    >>>>> <pkg> [ userId:0 | appId:7 ]               *)
(*            "kill"      Killing <pid>:<pkg>/u0a1: reason                 *)
(*            "killstart" Killing <pid>:<pkg>/u0a1: Start proc             *)
(*                        <pid2>:<pkg2>/u0a1 for activity {tgt}            *)
(*            "leave"     No longer want <pkg> (pid <pid>): reason         *)
(*            "died"      Process <pkg> (pid <pid>) has died               *)
(***************************************************************************)
EXTENDS Integers, Sequences, FiniteSets, TLC

VARIABLES
    args,             \* CliArgs after main's normalisation (read-only in the loop)
    named_processes,  \* State.named_processes
    catchall_package, \* State.catchall_package
    pids_map,         \* State.pids_map     : pid -> package
    last_tag,         \* State.last_tag     : Option<tag>
    app_pid,          \* State.app_pid      : Option<pid>
    token_colors,     \* State.token_colors : the palette, a Vec<Color>
    known_tokens,     \* State.known_tokens : token -> Color
    regex_cache,      \* REGEX_CACHE        : pattern -> Option<Regex>
    writers,          \* main's writers: the console and, with --output, a file;
                      \* broken is TRUE once writes to the target fail
    pc,               \* "loop" while main's loop runs, "panicked" after a panic
    line,             \* the line most recently handed to write_log_line
    wrote,            \* TRUE iff that line wrote something to the sinks
    out,              \* the block most recently written to the sinks
    alive,            \* the pids the snapshot or a start banner introduced and no
                      \* death banner has reported since
    colored,          \* the get_token_color calls of the last line that made
                      \* any: token, color returned, and whether the token was
                      \* also the one looked up just before
    recent,           \* the tokens looked up so far that main did not pre-seed,
                      \* least recently looked up first
    log_source,       \* "process" (LogSource::Process) or "stdin"
    at,               \* where main's loop stands: "try_wait", "read_until",
                      \* "end" (after the loop) or "exit" (main returned)
    why,              \* the break that left the loop: "exit_status",
                      \* "wait_failed" or "eof"; "none" inside the loop
    child,            \* the upstream: "running" or "exited" (its end of the
                      \* pipes closed)
    stream,           \* "ok", or "error" once reads of upstream's stdout fail
    pipe,             \* the lines upstream wrote to stdout, not yet read
    errbuf,           \* TRUE iff upstream wrote diagnostics to its stderr
    reported,         \* TRUE iff main printed upstream's diagnostics
    produced,         \* every line upstream wrote, in order
    consumed,         \* every line handed to write_log_line, in order
    call,             \* the arguments of a text function about to be called
    ret               \* what the call returned: None before the call

vars == <<args, named_processes, catchall_package, pids_map, last_tag, app_pid,
          token_colors, known_tokens, regex_cache, writers, pc, line, wrote,
          out, alive, colored, recent, log_source, at, why, child, stream, pipe,
          errbuf, reported, produced, consumed, call, ret>>

\* the variables of main's loop around write_log_line, and of the calls of
\* text functions that are followed on their own
loop_vars ==
    <<log_source, at, why, child, stream, pipe, errbuf, reported, produced,
      consumed, call, ret>>

None == <<>>
Some(x) == <<x>>

----
\* Bounds of the model

\* longest package token the interest predicate is checked on
MaxTokLen == 3

\* most lines upstream writes in a session
MaxStream == 2

\* process ids are the decimal texts of 1..MaxPid
MaxPid == 2

----
\* Vocabulary of the inputs

Pids == 1..MaxPid

\* symbols of package and process names: [a-zA-Z0-9._:]+
PkgSyms == {"com.a", "com.b", ":", "svc"}

PkgA    == <<"com.a">>
PkgB    == <<"com.b">>
PkgASvc == <<"com.a", ":", "svc">>
PkgBSvc == <<"com.b", ":", "svc">>

\* package names that occur in the lines of the stream
LinePkgs == {PkgA, PkgB, PkgASvc}

\* symbols of tags
TagActivityManager == <<"Activity", "Manager">>
TagDalvikvm        == <<"dalvikvm">>
TagMyTag           == <<"My", "Tag">>

Tags == {TagActivityManager, TagDalvikvm, TagMyTag}

\* tags main does not pre-seed: one more than the palette has colors
FreshTag(i) == <<"Tag", ToString(i)>>
FreshTags == {FreshTag(i) : i \in 1..7}

\* level letters of the stream: LOG_LINE admits every [A-Z]
Letters == {"V", "D", "I", "W", "E", "F", "X"}

RECURSIVE SeqsUpTo(_, _)
SeqsUpTo(S, n) ==
    IF n = 0 THEN {<<>>}
    ELSE LET shorter == SeqsUpTo(S, n - 1)
         IN  shorter \cup {Append(q, x) : q \in shorter, x \in S}

\* every package token of at most MaxTokLen symbols
Tokens == SeqsUpTo(PkgSyms, MaxTokLen)

----
\* Lines of the stream

Rec(level, tag, pid) == [k |-> "rec", level |-> level, tag |-> tag, pid |-> pid]
Txt == [k |-> "txt", level |-> "", tag |-> <<>>, pid |-> 0]
Nil == [k |-> "nil", level |-> "", tag |-> <<>>, pid |-> 0]

Msg(k, pid, pkg) == [k |-> k, pid |-> pid, pkg |-> pkg, pid2 |-> 0, pkg2 |-> <<>>]
KillStart(pid, pkg, pid2, pkg2) ==
    [k |-> "killstart", pid |-> pid, pkg |-> pkg, pid2 |-> pid2, pkg2 |-> pkg2]
Plain == Msg("plain", 0, <<>>)

Line(head, msg) == [head |-> head, msg |-> msg]

EmptyLine == Line(Nil, Plain)

PlainLines ==
    {Line(Rec("I", tg, p), Plain) : tg \in {TagActivityManager, TagMyTag}, p \in Pids}
    \cup { EmptyLine, Line(Txt, Plain),
           Line(Rec("E", TagMyTag, 1), Plain),
           Line(Rec("X", TagMyTag, 1), Plain) }

NoiseLines ==
    { Line(Rec("I", TagMyTag, 1), Msg("native", 0, <<>>)),
      Line(Rec("I", TagActivityManager, 1), Msg("startnat", 1, PkgA)) }

StartLines ==
    {Line(Rec("I", TagActivityManager, 1), Msg("start", p, PkgA)) : p \in Pids}
    \cup {Line(Rec("I", TagActivityManager, 1), Msg("start", 1, pkg)) :
             pkg \in LinePkgs}
    \cup { Line(Txt, Msg("start", 1, PkgA)),
           Line(Nil, Msg("start", 1, PkgA)),
           Line(Rec("X", TagActivityManager, 1), Msg("start", 1, PkgA)),
           Line(Rec("I", TagActivityManager, 1), Msg("ugid", 1, PkgB)),
           Line(Rec("E", TagDalvikvm, 1), Msg("dalvik", 0, PkgA)),
           Line(Rec("I", TagDalvikvm, 1), Msg("dalvik", 0, PkgA)) }

DeathLines ==
    {Line(Rec("I", TagActivityManager, 1), Msg("died", p, PkgA)) : p \in Pids}
    \cup { Line(Rec("I", TagActivityManager, 1), Msg("died", 1, PkgB)),
           Line(Rec("I", TagActivityManager, 1), Msg("kill", 1, PkgA)),
           Line(Rec("I", TagActivityManager, 1), Msg("leave", 1, PkgASvc)),
           Line(Rec("I", TagMyTag, 1), Msg("died", 1, PkgA)),
           Line(Rec("X", TagActivityManager, 1), Msg("died", 1, PkgA)),
           Line(Txt, Msg("died", 1, PkgA)),
           Line(Rec("I", TagActivityManager, 1), KillStart(1, PkgA, 2, PkgB)) }

Lines == PlainLines \cup NoiseLines \cup StartLines \cup DeathLines

----
\* model/log_level.rs

VERBOSE == 0
DEBUG   == 1
INFO    == 2
WARN    == 3
ERROR   == 4
FATAL   == 5

\* LogLevel::from(&str); None stands for panic!("Invalid log level")
LogLevel_from(str) ==
    CASE str = "V" -> Some(VERBOSE)
      [] str = "D" -> Some(DEBUG)
      [] str = "I" -> Some(INFO)
      [] str = "W" -> Some(WARN)
      [] str = "E" -> Some(ERROR)
      [] str = "F" -> Some(FATAL)
      [] OTHER     -> None

----
\* The patterns of bin/main.rs, as recognisers of the lines above.
\* A recogniser yields None or Some(captures).

NATIVE_TAGS_LINE(l) == l.msg.k \in {"native", "startnat"}

\* ^([A-Z])/(.+?)\( *(\d+)\): (.*?)$
LOG_LINE(l) ==
    IF l.head.k = "rec"
    THEN Some([level |-> l.head.level, tag |-> l.head.tag,
               owner |-> l.head.pid, message |-> l.msg])
    ELSE None

\* ^.*: Start proc (\d+):([a-zA-Z0-9._:]+)/[a-z0-9]+ for .*? \{(.*?)\}$
\* needs ": " in front of "Start proc": a record head, a text head, or the
\* "/u0a1: " of a Killing message
PID_START(l) ==
    IF l.msg.k \in {"start", "startnat"} /\ l.head.k \in {"rec", "txt"}
    THEN Some([pid |-> l.msg.pid, pkg |-> l.msg.pkg])
    ELSE IF l.msg.k = "killstart"
    THEN Some([pid |-> l.msg.pid2, pkg |-> l.msg.pkg2])
    ELSE None

\* ^.*: Start proc ([a-zA-Z0-9._:]+) for ([a-z]+ [^:]+): pid=(\d+) uid=(\d+) gids=(.*)$
PID_START_UGID(l) ==
    IF l.msg.k = "ugid" /\ l.head.k \in {"rec", "txt"}
    THEN Some([pid |-> l.msg.pid, pkg |-> l.msg.pkg])
    ELSE None

\* ^E/dalvikvm\(\s*(\d+)\): >>>>> ([a-zA-Z0-9._:]+) \[ userId:0 \| appId:(\d+) \]$
PID_START_DALVIK(l) ==
    IF /\ l.head.k = "rec" /\ l.head.level = "E" /\ l.head.tag = TagDalvikvm
       /\ l.msg.k = "dalvik"
    THEN Some([pid |-> l.head.pid, pkg |-> l.msg.pkg])
    ELSE None

\* ^Killing (\d+):([a-zA-Z0-9._:]+)/[^:]+: (.*)$
PID_KILL(message) ==
    IF message.k \in {"kill", "killstart"}
    THEN Some([pid |-> message.pid, pkg |-> message.pkg])
    ELSE None

\* ^No longer want ([a-zA-Z0-9._:]+) \(pid (\d+)\): .*$
PID_LEAVE(message) ==
    IF message.k = "leave"
    THEN Some([pid |-> message.pid, pkg |-> message.pkg])
    ELSE None

\* ^Process ([a-zA-Z0-9._:]+) \(pid (\d+)\) has died.?$
PID_DEATH(message) ==
    IF message.k = "died"
    THEN Some([pid |-> message.pid, pkg |-> message.pkg])
    ELSE None

----
\* String operations of the standard library, on sequences of symbols

\* str::find(char): the first index holding c
find(s, c) ==
    LET hits == {i \in 1..Len(s) : s[i] = c}
    IN  IF hits = {} THEN None
        ELSE Some(CHOOSE i \in hits : \A j \in hits : i <= j)

\* str::contains(&str)
contains(s, sub) ==
    \E i \in 0..(Len(s) - Len(sub)) : SubSeq(s, i + 1, i + Len(sub)) = sub

----
\* Process lifecycle tracker

\* str::rfind(char): the last index holding c
rfind(s, c) ==
    LET hits == {i \in 1..Len(s) : s[i] = c}
    IN  IF hits = {} THEN None
        ELSE Some(CHOOSE i \in hits : \A j \in hits : i >= j)

\* is_matching_package splitting the token at its last ":"
is_matching_package_last(token, named, catchall) ==
    IF catchall = {} /\ named = {} THEN TRUE
    ELSE IF token \in named THEN TRUE
    ELSE LET index == rfind(token, ":")
         IN  IF index = None THEN token \in catchall
             ELSE SubSeq(token, 1, index[1] - 1) \in catchall

\* is_matching_package: named_processes and catchall_package are Vecs that
\* are only asked contains/is_empty, so they are modelled as sets
is_matching_package(token, named, catchall) ==
    IF catchall = {} /\ named = {} THEN TRUE
    ELSE IF token \in named THEN TRUE
    ELSE LET index == find(token, ":")
         IN  IF index = None THEN token \in catchall
             ELSE SubSeq(token, 1, index[1] - 1) \in catchall

\* get_started_process: the first pattern that matches wins; of the
\* 5-tuple the model keeps started_pid and started_package
get_started_process(l) ==
    IF PID_START(l) # None THEN PID_START(l)
    ELSE IF PID_START_UGID(l) # None THEN PID_START_UGID(l)
    ELSE IF PID_START_DALVIK(l) # None THEN PID_START_DALVIK(l)
    ELSE None

\* a block of get_dead_process that does not ask pids_set
dead_candidate_anypid(caps, pids_set, named, catchall) ==
    /\ caps # None
    /\ is_matching_package(caps[1].pkg, named, catchall)

\* one of the three blocks of get_dead_process
dead_candidate(caps, pids_set, named, catchall) ==
    /\ caps # None
    /\ is_matching_package(caps[1].pkg, named, catchall)
    /\ caps[1].pid \in pids_set

get_dead_process(tag, message, pids_set, named, catchall) ==
    IF tag # TagActivityManager THEN None
    ELSE IF dead_candidate(PID_KILL(message), pids_set, named, catchall)
    THEN PID_KILL(message)
    ELSE IF dead_candidate(PID_LEAVE(message), pids_set, named, catchall)
    THEN PID_LEAVE(message)
    ELSE IF dead_candidate(PID_DEATH(message), pids_set, named, catchall)
    THEN PID_DEATH(message)
    ELSE None

----
\* Tag filters

\* r".*+?[]{}()|\^$"
regex_chars == {".", "*", "+", "?", "[", "]", "{", "}", "(", ")", "|", "\\", "^", "$"}

\* the filters of the modelled command lines
FilterManager == <<"Manager">>          \* literal
FilterMy      == <<"My">>               \* literal
FilterDotTag  == <<".", "Tag">>         \* pattern  .Tag
FilterAnchor  == <<"^", "Activity">>    \* pattern  ^Activity
FilterBad     == <<"(", "My">>          \* pattern  (My   does not compile

\* Regex::new(pattern).ok() for patterns made of "^", ".", "(", ")" and
\* literal symbols: an unclosed or unopened group is a syntax error
Regex_new(pattern) ==
    LET opens  == Cardinality({i \in 1..Len(pattern) : pattern[i] = "("})
        closes == Cardinality({i \in 1..Len(pattern) : pattern[i] = ")"})
    IN  IF opens # closes THEN None ELSE Some(pattern)

\* Regex::is_match for a compiled pattern  ^ a1 a2 ...  (no groups): the
\* text starts with symbols matching a1 a2 ..., "." matching any symbol
Regex_is_match(re, text) ==
    LET atoms == Tail(re)
    IN  /\ Len(atoms) <= Len(text)
        /\ \A i \in 1..Len(atoms) : atoms[i] = "." \/ atoms[i] = text[i]

\* the loop of is_matching_tag from position i on, threading REGEX_CACHE;
\* yields the return value and the cache it leaves behind
RECURSIVE is_matching_tag_from(_, _, _, _)
is_matching_tag_from(tag, tags, i, cache) ==
    IF i > Len(tags) THEN [ret |-> FALSE, cache |-> cache]
    ELSE
      LET m_tag    == tags[i]
          is_regex == \E j \in 1..Len(m_tag) : m_tag[j] \in regex_chars
      IN  IF is_regex
          THEN LET pattern == IF m_tag[1] = "^" THEN m_tag ELSE <<"^">> \o m_tag
                   cache2  == IF pattern \in DOMAIN cache THEN cache
                              ELSE [q \in DOMAIN cache \cup {pattern} |->
                                      IF q = pattern THEN Regex_new(pattern)
                                      ELSE cache[q]]
                   re_opt  == cache2[pattern]
               IN  IF re_opt # None /\ Regex_is_match(re_opt[1], tag)
                   THEN [ret |-> TRUE, cache |-> cache2]
                   ELSE is_matching_tag_from(tag, tags, i + 1, cache2)
          ELSE IF contains(tag, m_tag)
               THEN [ret |-> TRUE, cache |-> cache]
               ELSE is_matching_tag_from(tag, tags, i + 1, cache)

\* is_matching_tag that gives up on the list once a pattern failed to compile
is_matching_tag_give_up(tag, tags, cache) ==
    LET r == is_matching_tag_from(tag, tags, 1, cache)
    IN  IF \E p \in DOMAIN r.cache : r.cache[p] = None
        THEN [ret |-> FALSE, cache |-> r.cache]
        ELSE r

is_matching_tag(tag, tags, cache) == is_matching_tag_from(tag, tags, 1, cache)

----
\* HashMap::insert and HashMap::remove
insert(map, key, value) ==
    [q \in DOMAIN map \cup {key} |-> IF q = key THEN value ELSE map[q]]

remove(map, key) == [q \in DOMAIN map \ {key} |-> map[q]]

----
\* Color assignment table

\* tag_colors of main
tag_colors ==
    <<"BrightRed", "BrightBlue", "BrightCyan", "BrightGreen", "BrightYellow",
      "BrightMagenta">>

\* known_tags of main
known_tags ==
    LET White == { <<"jdwp">>, <<"Process">>, <<"dalvikvm">>, <<"StrictMode">>,
                   <<"Activity", "Thread">>, <<"Activity", "Manager">> }
        keys  == White \cup { <<"DEBUG">>, <<"AndroidRuntime">> }
    IN  [t \in keys |-> IF t \in White THEN "White"
                        ELSE IF t = <<"DEBUG">> THEN "Yellow" ELSE "Cyan"]

\* Vec::iter().position(|col| col == color)
position(colors, color) ==
    LET hits == {i \in 1..Len(colors) : colors[i] = color}
    IN  IF hits = {} THEN None
        ELSE Some(CHOOSE i \in hits : \A j \in hits : i <= j)

\* Vec::remove(pos)
remove_at(colors, pos) ==
    SubSeq(colors, 1, pos - 1) \o SubSeq(colors, pos + 1, Len(colors))

\* get_token_color without the contains_key test: every lookup of a token
\* main did not pre-seed takes the front color again
get_token_color_reassign(token, tc, kt) ==
    IF token \notin DOMAIN known_tags /\ tc = <<>>
    THEN [color |-> "White", token_colors |-> tc, known_tokens |-> kt]
    ELSE LET kt2   == IF token \in DOMAIN known_tags THEN kt
                      ELSE insert(kt, token, tc[1])
             color == kt2[token]
             pos   == position(tc, color)
             tc2   == IF pos # None THEN remove_at(tc, pos[1]) ELSE tc
         IN  [color |-> color, token_colors |-> Append(tc2, color),
              known_tokens |-> kt2]

\* get_token_color that takes an assigned color out of the palette: the move
\* to the back is left out
get_token_color_take(token, tc, kt) ==
    IF token \notin DOMAIN kt /\ tc = <<>>
    THEN [color |-> "White", token_colors |-> tc, known_tokens |-> kt]
    ELSE LET kt2   == IF token \in DOMAIN kt THEN kt
                      ELSE insert(kt, token, tc[1])
             color == kt2[token]
             pos   == position(tc, color)
             tc2   == IF pos # None THEN remove_at(tc, pos[1]) ELSE tc
         IN  [color |-> color, token_colors |-> tc2, known_tokens |-> kt2]

\* get_token_color that leaves the palette in the order it has
get_token_color_no_move(token, tc, kt) ==
    IF token \notin DOMAIN kt /\ tc = <<>>
    THEN [color |-> "White", token_colors |-> tc, known_tokens |-> kt]
    ELSE LET kt2   == IF token \in DOMAIN kt THEN kt
                      ELSE insert(kt, token, tc[1])
             color == kt2[token]
         IN  [color |-> color,
              token_colors |-> IF position(tc, color) # None THEN tc
                               ELSE Append(tc, color),
              known_tokens |-> kt2]

\* get_token_color: the color returned and the table left behind
\* (rotate_left(0) leaves the palette as it is)
get_token_color(token, tc, kt) ==
    IF token \notin DOMAIN kt /\ tc = <<>>
    THEN [color |-> "White", token_colors |-> tc, known_tokens |-> kt]
    ELSE LET kt2   == IF token \in DOMAIN kt THEN kt
                      ELSE insert(kt, token, tc[1])
             color == kt2[token]
             pos   == position(tc, color)
             tc2   == IF pos # None THEN remove_at(tc, pos[1]) ELSE tc
         IN  [color |-> color, token_colors |-> Append(tc2, color),
              known_tokens |-> kt2]

\* the text of a pid, and the owner name shown for a pid without owner
pid_text(pid) == <<ToString(pid)>>
unknown_owner(pid) == <<"UNKNOWN(", ToString(pid), ")">>

\* the color lookup of write_pid (an owner is \d+, never empty)
write_pid(owner, a, tc, kt) ==
    IF a.show_pid
    THEN get_token_color(pid_text(owner), tc, kt)
    ELSE [color |-> "White", token_colors |-> tc, known_tokens |-> kt]

\* the color lookup of write_package_name
write_package_name(owner, a, pm, tc, kt) ==
    IF a.show_package
    THEN LET package_name == IF owner \in DOMAIN pm THEN pm[owner]
                             ELSE unknown_owner(owner)
         IN  get_token_color(package_name, tc, kt)
    ELSE [color |-> "White", token_colors |-> tc, known_tokens |-> kt]

----
\* ANSI-aware wrapping: here a text is a sequence of single characters

ESC == "ESC"    \* '\x1b'
TAB == "TAB"    \* '\t'
NL  == "NL"     \* '\n'
SP  == " "

\* char::is_ascii_alphabetic on the characters that occur
is_ascii_alphabetic(ch) == ch \in {"a", "m"}

\* the bytes 0x40..0x7E that end a control sequence
is_csi_final(ch) == is_ascii_alphabetic(ch) \/ ch \in {"[", "~"}

\* "\x1b[0m"
RESET == <<ESC, "[", "0", "m">>

\* strip_ansi_escapes::strip: printable characters and line feeds stay,
\* escape sequences and the other control characters go
RECURSIVE strip_from(_, _, _)
strip_from(text, i, state) ==
    IF i > Len(text) THEN <<>>
    ELSE LET ch == text[i]
         IN  IF ch = ESC THEN strip_from(text, i + 1, "escape")
             ELSE IF ch = NL THEN <<NL>> \o strip_from(text, i + 1, state)
             ELSE IF ch = TAB THEN strip_from(text, i + 1, state)
             ELSE IF state = "ground"
                  THEN <<ch>> \o strip_from(text, i + 1, "ground")
             ELSE IF state = "escape"
                  THEN IF ch = "[" THEN strip_from(text, i + 1, "csi")
                       ELSE IF ch = SP
                       THEN strip_from(text, i + 1, "escape_intermediate")
                       ELSE strip_from(text, i + 1, "ground")
             ELSE IF state = "escape_intermediate"
                  THEN IF ch = SP
                       THEN strip_from(text, i + 1, "escape_intermediate")
                       ELSE strip_from(text, i + 1, "ground")
             ELSE IF is_csi_final(ch) THEN strip_from(text, i + 1, "ground")
                  ELSE strip_from(text, i + 1, "csi")

strip(text) == strip_from(text, 1, "ground")

\* str::replace('\t', "    ")
RECURSIVE replace_tabs(_)
replace_tabs(text) ==
    IF text = <<>> THEN <<>>
    ELSE (IF Head(text) = TAB THEN <<SP, SP, SP, SP>> ELSE <<Head(text)>>)
         \o replace_tabs(Tail(text))

\* the inner loop of get_ansi_segments: the index of the last character of
\* the code whose parameters start at j
RECURSIVE code_end(_, _)
code_end(text, j) ==
    IF j > Len(text) THEN Len(text)
    ELSE IF is_ascii_alphabetic(text[j]) THEN j
    ELSE code_end(text, j + 1)

\* get_ansi_segments from character i on
RECURSIVE get_ansi_segments_from(_, _, _)
get_ansi_segments_from(text, i, visible_pos) ==
    IF i > Len(text) THEN <<>>
    ELSE IF text[i] = ESC /\ i + 1 <= Len(text) /\ text[i + 1] = "["
    THEN LET e == code_end(text, i + 2)
         IN  <<[code |-> SubSeq(text, i, e), visible_pos |-> visible_pos]>>
             \o get_ansi_segments_from(text, e + 1, visible_pos)
    ELSE get_ansi_segments_from(text, i + 1, visible_pos + 1)

get_ansi_segments(text) == get_ansi_segments_from(text, 1, 0)

\* get_active_codes_at_pos from segment idx on, with the codes active so far
RECURSIVE get_active_codes_from(_, _, _, _)
get_active_codes_from(segments, idx, pos, active) ==
    IF idx > Len(segments) THEN active
    ELSE IF segments[idx].visible_pos >= pos THEN active
    ELSE IF contains(segments[idx].code, <<"0", "m">>)
    THEN get_active_codes_from(segments, idx + 1, pos, <<>>)
    ELSE get_active_codes_from(segments, idx + 1, pos,
                               Append(active, segments[idx].code))

get_active_codes_at_pos(segments, pos) ==
    get_active_codes_from(segments, 1, pos, <<>>)

\* the inner while loop of insert_ansi_codes_in_range: what it pushes and
\* the segment index it leaves
RECURSIVE codes_at(_, _, _, _)
codes_at(segments, idx, absolute_pos, end_pos) ==
    IF idx > Len(segments) THEN [out |-> <<>>, idx |-> idx]
    ELSE IF segments[idx].visible_pos >= end_pos THEN [out |-> <<>>, idx |-> idx]
    ELSE IF segments[idx].visible_pos = absolute_pos
    THEN LET more == codes_at(segments, idx + 1, absolute_pos, end_pos)
         IN  [out |-> segments[idx].code \o more.out, idx |-> more.idx]
    ELSE IF segments[idx].visible_pos > absolute_pos
    THEN [out |-> <<>>, idx |-> idx]
    ELSE codes_at(segments, idx + 1, absolute_pos, end_pos)

\* the for loop of insert_ansi_codes_in_range from character k on
RECURSIVE insert_from(_, _, _, _, _, _)
insert_from(chars, k, segments, idx, start_pos, end_pos) ==
    IF k > Len(chars) THEN <<>>
    ELSE LET pushed == codes_at(segments, idx, start_pos + (k - 1), end_pos)
         IN  pushed.out \o <<chars[k]>>
             \o insert_from(chars, k + 1, segments, pushed.idx, start_pos, end_pos)

\* concatenation of a sequence of texts
RECURSIVE concat(_)
concat(texts) == IF texts = <<>> THEN <<>> ELSE Head(texts) \o concat(Tail(texts))

insert_ansi_codes_in_range(plain_text, segments, start_pos, end_pos, active_codes) ==
    LET before == {i \in 1..Len(segments) : segments[i].visible_pos < start_pos}
    IN  concat(active_codes)
        \o insert_from(plain_text, 1, segments, Cardinality(before) + 1,
                       start_pos, end_pos)

\* str.color(fg).on_color(bg).to_string(): one code for both colors, the
\* text, and a reset
colorize(text) == <<ESC, "[", "3", "m">> \o text \o RESET

\* " ".repeat(n)
RECURSIVE spaces(_)
spaces(n) == IF n = 0 THEN <<>> ELSE <<SP>> \o spaces(n - 1)

\* usize::saturating_sub
saturating_sub(a, b) == IF a > b THEN a - b ELSE 0

\* the while loop of get_wrapped_indent from visible position current on;
\* same is level_foreground == level_background
RECURSIVE wrap_from(_, _, _, _, _, _, _)
wrap_from(chars, segments, current, wrap_width, show_colors, header_width, same) ==
    IF current >= Len(chars) THEN <<>>
    ELSE
      LET next_index == IF current + wrap_width < Len(chars)
                        THEN current + wrap_width ELSE Len(chars)
          segment    == SubSeq(chars, current + 1, next_index)
          active     == IF current > 0
                        THEN get_active_codes_at_pos(segments, current)
                        ELSE <<>>
          colored_segment ==
              insert_ansi_codes_in_range(segment, segments, current, next_index,
                                         active)
          indent     == spaces(saturating_sub(header_width, 5))
          is_last    == next_index + wrap_width >= Len(chars)
          connector  == IF same THEN <<SP, SP, SP, SP>>
                        ELSE IF ~is_last THEN <<SP, "BoxT", "BoxH">>
                        ELSE <<SP, "BoxL", "BoxH">>
          between    == RESET \o <<NL>>
                        \o (IF same THEN colorize(indent) ELSE indent)
                        \o (IF show_colors THEN colorize(connector) ELSE connector)
                        \o <<SP>>
      IN  colored_segment
          \o (IF next_index < Len(chars) THEN between ELSE RESET)
          \o wrap_from(chars, segments, next_index, wrap_width, show_colors,
                       header_width, same)

\* same is level_foreground == level_background
get_wrapped_indent(message, show_colors, width, header_width, same) ==
    IF width = -1 THEN message
    ELSE LET tabless    == replace_tabs(message)
             wrap_width == saturating_sub(width, header_width)
             plain      == strip(tabless)
         IN  IF wrap_width = 0 THEN tabless
             ELSE IF Len(plain) <= wrap_width THEN tabless
             ELSE wrap_from(plain, get_ansi_segments(tabless), 0, wrap_width,
                            show_colors, header_width, same)

----
\* Column values: a value is a sequence of characters, "a" of one byte and
\* "E2" (an accented letter) of two

ELLIPSIS == "Ellipsis"

\* ELLIPSIS.chars().count()
ELLIPSIS_COUNT == 1

\* the UTF-8 length of a character
len_utf8(ch) == IF ch = "E2" THEN 2 ELSE IF ch = ELLIPSIS THEN 3 ELSE 1

\* str::len: the length in bytes
RECURSIVE len_bytes(_)
len_bytes(text) == IF text = <<>> THEN 0 ELSE len_utf8(Head(text)) + len_bytes(Tail(text))

\* str::is_char_boundary
is_char_boundary(text, index) ==
    \E k \in 0..Len(text) : len_bytes(SubSeq(text, 1, k)) = index

\* String::truncate: cuts at a byte index, which must lie between characters
truncate(text, new_len) ==
    IF new_len > len_bytes(text) THEN [panicked |-> FALSE, text |-> text]
    ELSE IF ~is_char_boundary(text, new_len) THEN [panicked |-> TRUE, text |-> <<>>]
    ELSE [panicked |-> FALSE,
          text |-> SubSeq(text, 1,
                          CHOOSE k \in 0..Len(text) : len_bytes(SubSeq(text, 1, k)) = new_len)]

\* format!("{:width$}"): pads up to width characters, never cuts
pad(text, width) == text \o spaces(saturating_sub(width, Len(text)))

\* display_owner, display_pkg and display_tag as written to the column.
\* width - ELLIPSIS_COUNT is a subtraction of usize: below zero it panics in
\* a build with overflow checks and wraps around in a build without, and
\* truncate to the wrapped length cuts nothing
display(value, width, overflow_checks) ==
    IF len_bytes(value) > width
    THEN IF width < ELLIPSIS_COUNT
         THEN [panicked |-> overflow_checks, underflow |-> TRUE,
               text |-> IF overflow_checks THEN <<>>
                        ELSE pad(Append(value, ELLIPSIS), width)]
         ELSE LET cut == truncate(value, width - ELLIPSIS_COUNT)
              IN  [panicked |-> cut.panicked, underflow |-> FALSE,
                   text |-> IF cut.panicked THEN <<>>
                            ELSE pad(Append(cut.text, ELLIPSIS), width)]
    ELSE [panicked |-> FALSE, underflow |-> FALSE, text |-> pad(value, width)]

\* a column that is switched off
no_column == [panicked |-> FALSE, underflow |-> FALSE, emitted |-> 0, advance |-> 0]

\* a column of a Record's header: the field and one separator space are
\* written, and header_width is advanced by the width and one
column(field, width) ==
    [panicked |-> field.panicked, underflow |-> field.underflow,
     emitted |-> Len(field.text) + 1, advance |-> width + 1]

\* the header of write_log_line from *header_width = 0 to the call of
\* write_message: write_pid, write_package_name, write_tag (a tag column
\* left blank is tag_width spaces), then write_log_level, which writes
\* " {level} " and a space and leaves header_width alone, and the final
\* *header_width += base_level_size
header(c) ==
    LET pid == IF c.show_pid
               THEN column(display(c.owner, c.pid_width, c.overflow_checks),
                           c.pid_width)
               ELSE no_column
        pkg == IF c.show_package
               THEN column(display(c.package_name, c.package_width,
                                   c.overflow_checks), c.package_width)
               ELSE no_column
        tag == IF c.tag_width = 0 THEN no_column
               ELSE IF c.blank_tag
               THEN column([panicked |-> FALSE, underflow |-> FALSE,
                            text |-> spaces(c.tag_width)], c.tag_width)
               ELSE column(display(c.tag, c.tag_width, c.overflow_checks),
                           c.tag_width)
        base_level_size == 1 + 1 + 3
        panicked == pid.panicked \/ pkg.panicked \/ tag.panicked
    IN  [panicked  |-> panicked,
         underflow |-> \/ pid.underflow
                       \/ ~pid.panicked /\ pkg.underflow
                       \/ ~pid.panicked /\ ~pkg.panicked /\ tag.underflow,
         emitted   |-> IF panicked THEN 0
                       ELSE pid.emitted + pkg.emitted + tag.emitted + 3 + 1,
         header_width |-> IF panicked THEN 0
                          ELSE pid.advance + pkg.advance + tag.advance
                               + base_level_size]

----
\* What a line writes to the sinks (the text itself is not kept)

Block(kind, pid, pkg, tag, tagcol, tagw) ==
    [kind |-> kind, pid |-> pid, pkg |-> pkg, tag |-> tag, tagcol |-> tagcol,
     tagw |-> tagw]

NoBlock == Block("none", 0, <<>>, <<>>, "off", 0)

\* write_started_process without the is_matching_package test
write_started_process_any(l, pm, ap, lt, named, catchall) ==
    LET procs == get_started_process(l)
    IN  IF procs # None
        THEN [ret |-> TRUE,
              pids_map |-> insert(pm, procs[1].pid, procs[1].pkg),
              app_pid |-> Some(procs[1].pid),
              last_tag |-> None,
              out |-> Block("start", procs[1].pid, procs[1].pkg, <<>>, "off", 0)]
        ELSE [ret |-> FALSE, pids_map |-> pm, app_pid |-> ap, last_tag |-> lt,
              out |-> NoBlock]

\* write_started_process: the return value, the fields of State it
\* leaves behind and the banner it wrote
write_started_process(l, pm, ap, lt, named, catchall) ==
    LET procs == get_started_process(l)
    IN  IF procs # None /\ is_matching_package(procs[1].pkg, named, catchall)
        THEN [ret |-> TRUE,
              pids_map |-> insert(pm, procs[1].pid, procs[1].pkg),
              app_pid |-> Some(procs[1].pid),
              last_tag |-> None,
              out |-> Block("start", procs[1].pid, procs[1].pkg, <<>>, "off", 0)]
        ELSE [ret |-> FALSE, pids_map |-> pm, app_pid |-> ap, last_tag |-> lt,
              out |-> NoBlock]

\* write_dead_process that writes the banner and keeps the entry
write_dead_process_keep(tag, message, pm, lt, named, catchall) ==
    LET dead == get_dead_process(tag, message, DOMAIN pm, named, catchall)
    IN  IF dead # None
        THEN [ret |-> TRUE, pids_map |-> pm, last_tag |-> None,
              out |-> Block("death", dead[1].pid, dead[1].pkg, <<>>, "off", 0)]
        ELSE [ret |-> FALSE, pids_map |-> pm, last_tag |-> lt, out |-> NoBlock]

\* write_dead_process
write_dead_process(tag, message, pm, lt, named, catchall) ==
    LET dead == get_dead_process(tag, message, DOMAIN pm, named, catchall)
    IN  IF dead # None
        THEN [ret |-> TRUE,
              pids_map |-> IF dead[1].pid \in DOMAIN pm
                           THEN remove(pm, dead[1].pid) ELSE pm,
              last_tag |-> None,
              out |-> Block("death", dead[1].pid, dead[1].pkg, <<>>, "off", 0)]
        ELSE [ret |-> FALSE, pids_map |-> pm, last_tag |-> lt, out |-> NoBlock]

\* format!("{:width$}") and format!("{:>width$}"): the number of characters
\* of the padded field; every symbol of a tag counts as one character
padded_len(len, width) == IF len < width THEN width ELSE len

\* write_tag that forgets to store the tag it renders
write_tag_stale(tag, a, lt, tc, kt) ==
    IF a.tag_width > 0
    THEN IF Some(tag) # lt \/ a.always_show_tags
         THEN [last_tag |-> lt, tagcol |-> "populated", tagw |-> a.tag_width,
               color |-> get_token_color(tag, tc, kt).color,
               token_colors |-> get_token_color(tag, tc, kt).token_colors,
               known_tokens |-> get_token_color(tag, tc, kt).known_tokens]
         ELSE [last_tag |-> lt, tagcol |-> "blank", tagw |-> a.tag_width,
               color |-> "White", token_colors |-> tc, known_tokens |-> kt]
    ELSE [last_tag |-> lt, tagcol |-> "off", tagw |-> 0,
          color |-> "White", token_colors |-> tc, known_tokens |-> kt]

\* write_tag: the last_tag and the color table it leaves behind, what the
\* tag column shows and how many characters the column takes
write_tag(tag, a, lt, tc, kt) ==
    IF a.tag_width > 0
    THEN IF Some(tag) # lt \/ a.always_show_tags
         THEN LET display_len == IF Len(tag) > a.tag_width
                                 THEN (a.tag_width - ELLIPSIS_COUNT) + ELLIPSIS_COUNT
                                 ELSE Len(tag)
                  tag_color   == get_token_color(tag, tc, kt)
              IN  [last_tag |-> Some(tag), tagcol |-> "populated",
                   tagw |-> padded_len(display_len, a.tag_width),
                   color |-> tag_color.color,
                   token_colors |-> tag_color.token_colors,
                   known_tokens |-> tag_color.known_tokens]
         ELSE [last_tag |-> lt, tagcol |-> "blank", tagw |-> a.tag_width,
               color |-> "White", token_colors |-> tc, known_tokens |-> kt]
    ELSE [last_tag |-> lt, tagcol |-> "off", tagw |-> 0,
          color |-> "White", token_colors |-> tc, known_tokens |-> kt]

----
\* main: the session state before the loop

\* the command lines of the modelled sessions
PackageArgs == { {}, {PkgA}, {PkgB, PkgASvc}, {<<"com.a", ":">>} }
IgnoreTagArgs == { None, Some(<<FilterBad, FilterManager>>) }
TagArgs == { None, Some(<<FilterDotTag, FilterAnchor>>), Some(<<FilterBad, FilterMy>>) }

\* the process names `adb shell ps` lists
PsNames == {PkgA, PkgASvc}

\* the process tables `adb shell ps` prints: no process, or one with pid 1
PsOutputs == UNION {[S -> PsNames] : S \in {{}, {1}}}

\* str::strip_suffix(':').unwrap_or(package)
strip_colon(package) ==
    IF Len(package) > 0 /\ package[Len(package)] = ":"
    THEN SubSeq(package, 1, Len(package) - 1)
    ELSE package

\* get_processes: the listed processes kept in the initial pids_map
get_processes(ps, catchall, all) ==
    LET kept == {p \in DOMAIN ps : all \/ ps[p] \in catchall}
    IN  [p \in kept |-> ps[p]]

\* the command line default: neither the pid nor the package column
NoColumns == [show_pid |-> FALSE, show_package |-> FALSE]

\* Writer::new_console and Writer::new_file
new_console == [target |-> "console", broken |-> FALSE]
new_file    == [target |-> "file", broken |-> FALSE]

\* the command line without and with --output
NoOutput   == None
FileOutput == Some("log.txt")

\* stdin.is_terminal(): adb is spawned, or the lines come from stdin
Sources == {"process", "stdin"}

\* the child and its streams when main reaches its loop: upstream has not
\* written anything yet
NotStarted(srcSet) ==
    /\ log_source \in srcSet
    /\ at = "try_wait"
    /\ why = "none"
    /\ child = "running"
    /\ stream = "ok"
    /\ pipe = <<>>
    /\ errbuf = FALSE
    /\ reported = FALSE
    /\ produced = <<>>
    /\ consumed = <<>>

\* main up to its loop: no text function is being called
BeforeLoop(srcSet) ==
    /\ NotStarted(srcSet)
    /\ call = [fn |-> "none"]
    /\ ret = None

\* main's State, arguments and writers when the loop starts
InitState(pkgSet, allSet, levelSet, widthSet, alwaysSet, ignoreSet, tagSet, psSet, colSet, outSet) ==
    \E packages \in pkgSet, all \in allSet, lvl \in levelSet,
       tw \in widthSet, always \in alwaysSet, ign \in ignoreSet,
       tg \in tagSet, ps \in psSet, cols \in colSet, output_path \in outSet :
        /\ catchall_package = {p \in packages : find(p, ":") = None}
        /\ named_processes =
              {strip_colon(p) : p \in {q \in packages : find(q, ":") # None}}
        /\ args = [all |-> all \/ packages = {}, log_level |-> lvl,
                   tag_width |-> tw, always_show_tags |-> always,
                   ignore_tag |-> ign, tag |-> tg,
                   show_pid |-> cols.show_pid,
                   show_package |-> cols.show_package,
                   output_path |-> output_path]
        /\ writers = IF output_path = None THEN <<new_console>>
                     ELSE <<new_console, new_file>>
        /\ pids_map = get_processes(ps, {p \in packages : find(p, ":") = None},
                                    all \/ packages = {})
        /\ alive = DOMAIN get_processes(ps,
                              {q \in packages : find(q, ":") = None},
                              all \/ packages = {})
        /\ last_tag = None
        /\ app_pid = None
        /\ token_colors = tag_colors
        /\ known_tokens = known_tags
        /\ regex_cache = <<>>
        /\ pc = "loop"
        /\ line = EmptyLine
        /\ wrote = FALSE
        /\ out = NoBlock
        /\ colored = <<>>
        /\ recent = <<>>

\* sessions over adb
InitWith(pkgSet, allSet, levelSet, widthSet, alwaysSet, ignoreSet, tagSet, psSet, colSet, outSet) ==
    /\ BeforeLoop({"process"})
    /\ InitState(pkgSet, allSet, levelSet, widthSet, alwaysSet, ignoreSet, tagSet, psSet, colSet, outSet)

\* sessions with the default columns and no tag filter, for the lifecycle
Init == InitWith(PackageArgs, {FALSE}, {VERBOSE}, {20}, {FALSE}, {None}, {None},
                 PsOutputs, {NoColumns}, {NoOutput})

\* sessions that differ in the tag column
InitTag == InitWith({{}, {PkgA}}, {FALSE}, {VERBOSE}, {0, 1, 20}, BOOLEAN,
                    {None}, {None}, {<<>>, <<PkgA>>}, {NoColumns}, {NoOutput})

\* sessions that differ in the packages of interest (-t 0: no tag column)
WidePackageArgs == SUBSET {PkgA, PkgB, PkgASvc, <<"com.a", ":">>}

InitPkg == InitWith(WidePackageArgs, {FALSE}, {VERBOSE}, {0}, {FALSE},
                    {None}, {None}, {<<>>}, {NoColumns}, {NoOutput})

\* sessions that differ in the Record filters
InitFilter == InitWith({{PkgA}}, BOOLEAN, {VERBOSE, WARN}, {20}, {FALSE},
                       IgnoreTagArgs, TagArgs, {<<>>, <<PkgA>>}, {NoColumns}, {NoOutput})

----
\* write_log_line

\* a return that wrote nothing and yet forgets the tag written last
Dropped_forget(cache) ==
    /\ regex_cache' = cache
    /\ wrote' = FALSE
    /\ last_tag' = None
    /\ UNCHANGED <<pids_map, app_pid, token_colors, known_tokens,
                   pc, out, alive, colored, recent>>

\* a return of write_log_line that wrote nothing
Dropped(cache) ==
    /\ regex_cache' = cache
    /\ wrote' = FALSE
    /\ UNCHANGED <<pids_map, last_tag, app_pid, token_colors, known_tokens,
                   pc, out, alive, colored, recent>>

\* a panic unwinds main: nothing more is read or written
Panicked ==
    /\ pc' = "panicked"
    /\ wrote' = FALSE
    /\ UNCHANGED <<pids_map, last_tag, app_pid, token_colors, known_tokens,
                   regex_cache, out, alive, colored, recent>>

\* the order of lookups after the get_token_color calls of one line
RECURSIVE touch(_, _)
touch(order, calls) ==
    IF calls = <<>> THEN order
    ELSE LET token == Head(calls).token
             rest  == SelectSeq(order, LAMBDA t : t # token)
         IN  touch(IF token \in DOMAIN known_tags THEN order
                   ELSE Append(rest, token),
                   Tail(calls))

\* a get_token_color call of a line: the calls before it in the same line
\* follow the calls of earlier lines
lookup(token, color, before) ==
    LET seen == colored \o before
    IN  [token |-> token, color |-> color,
         repeat |-> seen # <<>> /\ seen[Len(seen)].token = token]

\* write_token reached a writer whose write or flush fails
WriteFails == \E i \in DOMAIN writers : writers[i].broken

\* a return of write_log_line after writing block b
Written(b, pm, ap, lt, tc, kt, cache, calls) ==
    /\ colored' = IF calls = <<>> THEN colored ELSE calls
    /\ recent' = touch(recent, calls)
    /\ pids_map' = pm
    /\ app_pid' = ap
    /\ last_tag' = lt
    /\ token_colors' = tc
    /\ known_tokens' = kt
    /\ regex_cache' = cache
    /\ wrote' = TRUE
    /\ out' = b
    /\ alive' = IF b.kind = "start" THEN alive \cup {b.pid}
                ELSE IF b.kind = "death" THEN alive \ {b.pid}
                ELSE alive
    /\ UNCHANGED pc

\* the writes of block b: Writer::write and Writer::flush panic on failure
Wrote(b, pm, ap, lt, tc, kt, cache, calls) ==
    IF WriteFails THEN Panicked
    ELSE Written(b, pm, ap, lt, tc, kt, cache, calls)

\* an owner check that lets every owner through
owner_included_always(owner) == TRUE

\* the owner check of write_log_line
owner_included(owner) == args.all \/ owner \in DOMAIN pids_map

\* tag checks in which a matching include-tag filter wins over ignore-tag
tag_filters_include_first(tag, cache) ==
    LET inc == IF args.tag # None
               THEN is_matching_tag(tag, args.tag[1], cache)
               ELSE [ret |-> FALSE, cache |-> cache]
    IN  IF inc.ret THEN [pass |-> TRUE, cache |-> inc.cache]
        ELSE LET ign == IF args.ignore_tag # None
                        THEN is_matching_tag(tag, args.ignore_tag[1], inc.cache)
                        ELSE [ret |-> FALSE, cache |-> inc.cache]
             IN  [pass |-> args.tag = None /\ ~ign.ret, cache |-> ign.cache]

\* the ignore-tag check and then the include-tag check of write_log_line;
\* both consult REGEX_CACHE
tag_filters(tag, cache) ==
    LET ign == IF args.ignore_tag # None
               THEN is_matching_tag(tag, args.ignore_tag[1], cache)
               ELSE [ret |-> FALSE, cache |-> cache]
    IN  IF ign.ret THEN [pass |-> FALSE, cache |-> ign.cache]
        ELSE LET inc == IF args.tag # None
                        THEN is_matching_tag(tag, args.tag[1], ign.cache)
                        ELSE [ret |-> TRUE, cache |-> ign.cache]
             IN  [pass |-> inc.ret, cache |-> inc.cache]

\* the ordinary Record path of write_log_line, after the banners
write_record(owner, tag, level) ==
    IF ~owner_included(owner) THEN Dropped(regex_cache)
    ELSE IF level < args.log_level THEN Dropped(regex_cache)
    ELSE LET checked == tag_filters(tag, regex_cache)
         IN  IF ~checked.pass THEN Dropped(checked.cache)
             ELSE LET wp == write_pid(owner, args, token_colors, known_tokens)
                      wn == write_package_name(owner, args, pids_map,
                                               wp.token_colors, wp.known_tokens)
                      wt == write_tag(tag, args, last_tag, wn.token_colors,
                                      wn.known_tokens)
                      c1 == IF args.show_pid
                            THEN <<lookup(pid_text(owner), wp.color, <<>>)>>
                            ELSE <<>>
                      c2 == IF args.show_package
                            THEN Append(c1, lookup(IF owner \in DOMAIN pids_map
                                                   THEN pids_map[owner]
                                                   ELSE unknown_owner(owner),
                                                   wn.color, c1))
                            ELSE c1
                      c3 == IF wt.tagcol = "populated"
                            THEN Append(c2, lookup(tag, wt.color, c2))
                            ELSE c2
                  IN  Wrote(Block("record", owner, <<>>, tag, wt.tagcol, wt.tagw),
                            pids_map, app_pid, wt.last_tag, wt.token_colors,
                            wt.known_tokens, checked.cache, c3)

write_log_line(l) ==
    /\ pc = "loop"
    /\ line' = l
    /\ UNCHANGED <<args, named_processes, catchall_package, writers>>
    /\ IF NATIVE_TAGS_LINE(l) THEN Dropped(regex_cache)
       ELSE IF LOG_LINE(l) = None THEN Dropped(regex_cache)
       ELSE
         LET log_line == LOG_LINE(l)[1]
             owner    == log_line.owner
             tag      == log_line.tag
             level    == LogLevel_from(log_line.level)
             message  == log_line.message
             started  == write_started_process(l, pids_map, app_pid, last_tag,
                                               named_processes, catchall_package)
             dead     == write_dead_process(tag, message, pids_map, last_tag,
                                            named_processes, catchall_package)
         IN  IF level = None THEN Panicked
             ELSE IF started.ret
             THEN Wrote(started.out, started.pids_map, started.app_pid,
                        started.last_tag, token_colors, known_tokens,
                        regex_cache, <<>>)
             ELSE IF dead.ret
             THEN Wrote(dead.out, dead.pids_map, app_pid, dead.last_tag,
                        token_colors, known_tokens, regex_cache, <<>>)
             ELSE write_record(owner, tag, level[1])

\* one round of main's loop when upstream is running and delivers line l
loop_body(l) == write_log_line(l) /\ UNCHANGED loop_vars

Next == \E l \in Lines : loop_body(l)

Spec == Init /\ [][Next]_vars

\* the same sessions without the tag column (-m 0), for the owner map
InitOwner == InitWith(PackageArgs, {FALSE}, {VERBOSE}, {0}, {FALSE}, {None}, {None}, PsOutputs, {NoColumns}, {NoOutput})

SpecOwner == InitOwner /\ [][Next]_vars

\* streams of Records around one process, for the tag column
TagLines ==
    PlainLines \cup
    { Line(Rec("I", TagActivityManager, 1), Msg("start", 1, PkgA)),
      Line(Rec("I", TagActivityManager, 1), Msg("start", 1, PkgB)),
      Line(Rec("I", TagActivityManager, 1), Msg("died", 1, PkgA)) }

NextTag == \E l \in TagLines : loop_body(l)

SpecTag == InitTag /\ [][NextTag]_vars

\* streams of Records, noise and banners of one process, for the filters
FilterLines ==
    PlainLines \cup NoiseLines \cup
    { Line(Rec("I", TagActivityManager, 1), Msg("start", 1, PkgA)),
      Line(Rec("I", TagActivityManager, 1), Msg("start", 1, PkgB)),
      Line(Rec("I", TagActivityManager, 1), Msg("died", 1, PkgA)),
      Line(Rec("I", TagMyTag, 1), Msg("died", 1, PkgA)),
      Line(Rec("E", TagDalvikvm, 1), Msg("dalvik", 0, PkgA)),
      Line(Rec("I", TagDalvikvm, 1), Msg("dalvik", 0, PkgA)) }

NextFilter == \E l \in FilterLines : loop_body(l)

SpecFilter == InitFilter /\ [][NextFilter]_vars

\* streams of process starts and deaths, for the interest predicate
NextPkg == \E l \in StartLines \cup DeathLines : loop_body(l)

SpecPkg == InitPkg /\ [][NextPkg]_vars

\* sessions that show every Record and every tag, for the color table
InitColor == InitWith({{}}, {FALSE}, {VERBOSE}, {20}, {TRUE}, {None}, {None}, {<<>>}, {NoColumns}, {NoOutput})

\* Records of one process under fresh tags and under a pre-seeded tag
ColorLines ==
    {Line(Rec("I", tg, 1), Plain) : tg \in FreshTags \cup {TagActivityManager}}

\* fresh tags are interchangeable: the stream introduces them in the order
\* of their numbers, and after the last one it goes on with that tag and the
\* pre-seeded tag only
InOrder(l) ==
    /\ \A i \in 2..7 :
          (l.head.tag = FreshTag(i) /\ FreshTag(i) \notin DOMAIN known_tokens)
              => FreshTag(i - 1) \in DOMAIN known_tokens
    /\ FreshTag(7) \in DOMAIN known_tokens
          => l.head.tag \in {FreshTag(7), TagActivityManager}

NextColor == \E l \in ColorLines : InOrder(l) /\ loop_body(l)

SpecColor == InitColor /\ [][NextColor]_vars

\* sessions that also write to a file
InitSink == InitWith({{}}, {FALSE}, {VERBOSE}, {20}, {FALSE}, {None}, {None}, {<<>>}, {NoColumns}, {NoOutput, FileOutput})

\* Records with known levels and the banners of one process
SinkLines ==
    { Line(Rec("I", TagMyTag, 1), Plain),
      Line(Rec("E", TagMyTag, 2), Plain),
      Line(Rec("I", TagActivityManager, 1), Plain),
      Line(Rec("I", TagActivityManager, 1), Msg("start", 2, PkgA)),
      Line(Rec("I", TagActivityManager, 1), Msg("died", 2, PkgA)),
      Line(Txt, Plain) }

\* from now on writes to a target fail (terminal closed, disk full)
SinkBreaks ==
    /\ pc = "loop"
    /\ \E i \in DOMAIN writers :
          /\ ~writers[i].broken
          /\ writers' = [writers EXCEPT ![i].broken = TRUE]
    /\ UNCHANGED <<args, named_processes, catchall_package, pids_map, last_tag,
                   app_pid, token_colors, known_tokens, regex_cache, pc, line,
                   wrote, out, alive, colored, recent, loop_vars>>

NextSink ==
    \/ \E l \in SinkLines : loop_body(l)
    \/ SinkBreaks

SpecSink == InitSink /\ [][NextSink]_vars

----
\* main's loop and the upstream process

\* the variables write_log_line works on
line_vars ==
    <<args, named_processes, catchall_package, pids_map, last_tag, app_pid,
      token_colors, known_tokens, regex_cache, writers, pc, line, wrote, out,
      alive, colored, recent>>

\* sessions over adb and over stdin that show every Record
InitLoop ==
    /\ BeforeLoop(Sources)
    /\ InitState({{}}, {FALSE}, {VERBOSE}, {0}, {FALSE}, {None}, {None}, {<<>>}, {NoColumns}, {NoOutput})

\* the lines upstream writes
LoopLines ==
    { Line(Rec("I", TagMyTag, 1), Plain),
      Line(Rec("W", TagMyTag, 2), Plain),
      Line(Txt, Plain) }

\* upstream writes a line to its stdout
UpstreamWrites(l) ==
    /\ child = "running"
    /\ Len(produced) < MaxStream
    /\ pipe' = Append(pipe, l)
    /\ produced' = Append(produced, l)
    /\ UNCHANGED <<line_vars, log_source, at, why, child, stream, errbuf, reported,
                   consumed, call, ret>>

\* upstream writes diagnostics to its stderr
UpstreamComplains ==
    /\ child = "running"
    /\ ~errbuf
    /\ errbuf' = TRUE
    /\ UNCHANGED <<line_vars, log_source, at, why, child, stream, pipe, reported,
                   produced, consumed, call, ret>>

\* upstream exits (adb ends, or the writer of stdin closes it)
UpstreamExits ==
    /\ child = "running"
    /\ child' = "exited"
    /\ UNCHANGED <<line_vars, log_source, at, why, stream, pipe, errbuf, reported,
                   produced, consumed, call, ret>>

\* from now on reads of upstream's stdout fail
StreamFails ==
    /\ stream = "ok"
    /\ at \in {"try_wait", "read_until"}
    /\ stream' = "error"
    /\ UNCHANGED <<line_vars, log_source, at, why, child, pipe, errbuf, reported,
                   produced, consumed, call, ret>>

\* adb_child.try_wait() at the top of the loop: an exit status breaks the
\* loop, as does a failure of the call
try_wait ==
    /\ pc = "loop" /\ at = "try_wait"
    /\ \/ /\ log_source = "process" /\ child = "exited"
          /\ at' = "end" /\ why' = "exit_status"
       \/ /\ log_source = "process"
          /\ at' = "end" /\ why' = "wait_failed"
       \/ /\ log_source = "process" /\ child = "running"
          /\ at' = "read_until" /\ UNCHANGED why
       \/ /\ log_source = "stdin"
          /\ at' = "read_until" /\ UNCHANGED why
    /\ UNCHANGED <<line_vars, log_source, child, stream, pipe, errbuf, reported,
                   produced, consumed, call, ret>>

\* stdout.read_until(b'\n') with bytes to read, and write_log_line
read_line ==
    /\ pc = "loop" /\ at = "read_until"
    /\ stream = "ok"
    /\ pipe # <<>>
    /\ write_log_line(Head(pipe))
    /\ pipe' = Tail(pipe)
    /\ consumed' = Append(consumed, Head(pipe))
    /\ at' = "try_wait"
    /\ UNCHANGED <<log_source, why, child, stream, errbuf, reported, produced,
                   call, ret>>

\* stdout.read_until(b'\n') at the end of the stream: stderr is read to its
\* end and printed, and the loop breaks
read_eof ==
    /\ pc = "loop" /\ at = "read_until"
    /\ stream = "ok"
    /\ pipe = <<>> /\ child = "exited"
    /\ reported' = (log_source = "process" /\ errbuf)
    /\ at' = "end" /\ why' = "eof"
    /\ UNCHANGED <<line_vars, log_source, child, stream, pipe, errbuf, produced,
                   consumed, call, ret>>

\* stdout.read_until(b'\n') returns Err: unwrap_or_panic
read_error ==
    /\ pc = "loop" /\ at = "read_until"
    /\ stream = "error"
    /\ pc' = "panicked"
    /\ UNCHANGED <<args, named_processes, catchall_package, pids_map, last_tag,
                   app_pid, token_colors, known_tokens, regex_cache, writers,
                   line, wrote, out, alive, colored, recent, loop_vars>>

\* after the loop: adb_child.kill() and adb_child.wait(), and main returns
kill_and_wait ==
    /\ pc = "loop" /\ at = "end"
    /\ at' = "exit"
    /\ child' = "exited"
    /\ UNCHANGED <<line_vars, log_source, why, stream, pipe, errbuf, reported,
                   produced, consumed, call, ret>>

NextLoop ==
    \/ \E l \in LoopLines : UpstreamWrites(l)
    \/ UpstreamComplains
    \/ UpstreamExits
    \/ StreamFails
    \/ try_wait
    \/ read_line
    \/ read_eof
    \/ read_error
    \/ kill_and_wait

SpecLoop == InitLoop /\ [][NextLoop]_vars

----
\* The text functions on their own: a call, then its result

MaxPieces == 3

\* what a message is made of: a letter, a tab, the codes for italic and for a
\* black foreground, a reset and a control sequence that ends in "~"
Pieces ==
    { <<"a">>, <<TAB>>, <<ESC, "[", "3", "m">>, <<ESC, "[", "3", "0", "m">>, RESET,
      <<ESC, "[", "1", "~">> }

\* the texts made of n pieces
RECURSIVE texts_of(_)
texts_of(n) ==
    IF n = 0 THEN {<<>>}
    ELSE {piece \o rest : piece \in Pieces, rest \in texts_of(n - 1)}

Messages == UNION {texts_of(n) : n \in 0..MaxPieces}

\* the column values of up to MaxPieces characters
Values == UNION {[1..n -> {"a", "E2"}] : n \in 1..MaxPieces}

\* write_token calling get_wrapped_indent with the writer's width
WrapCalls ==
    [fn : {"get_wrapped_indent"}, message : Messages, show_colors : BOOLEAN,
     width : {-1, 0, 1, 2, 7}, header_width : {0, 2, 6}, same : BOOLEAN]

\* write_pid, write_package_name and write_tag fitting a value to its column
DisplayCalls == [fn : {"display"}, value : Values, width : 1..(MaxPieces + 2)]

InitText ==
    /\ NotStarted({"process"})
    /\ InitState({{}}, {FALSE}, {VERBOSE}, {0}, {FALSE}, {None}, {None}, {<<>>}, {NoColumns}, {NoOutput})
    /\ call \in WrapCalls \cup DisplayCalls
    /\ ret = None

call_get_wrapped_indent ==
    /\ call.fn = "get_wrapped_indent"
    /\ ret = None
    /\ ret' = Some(get_wrapped_indent(call.message, call.show_colors, call.width,
                                      call.header_width, call.same))
    /\ UNCHANGED <<line_vars, log_source, at, why, child, stream, pipe, errbuf,
                   reported, produced, consumed, call>>

call_display ==
    /\ call.fn = "display"
    /\ ret = None
    /\ ret' = Some(display(call.value, call.width, TRUE))
    /\ UNCHANGED <<line_vars, log_source, at, why, child, stream, pipe, errbuf,
                   reported, produced, consumed, call>>

NextText ==
    \/ call_get_wrapped_indent
    \/ call_display

SpecText == InitText /\ [][NextText]_vars

----
\* The header of a Record on its own

\* the columns switched on and off, their widths from 0 on, and values that
\* fit and do not fit; a build with and without overflow checks
HeaderCalls ==
    [fn : {"header"}, overflow_checks : BOOLEAN,
     show_pid : BOOLEAN, pid_width : {0, 1, 2}, owner : {<<"1">>, <<"1", "2">>},
     show_package : BOOLEAN, package_width : {0, 2}, package_name : {<<"a", "a">>},
     tag_width : {0, 1, 2, 3}, blank_tag : BOOLEAN,
     tag : {<<"a">>, <<"a", "a", "a">>, <<"E2", "E2">>}]

InitHeader ==
    /\ NotStarted({"process"})
    /\ InitState({{}}, {FALSE}, {VERBOSE}, {0}, {FALSE}, {None}, {None}, {<<>>}, {NoColumns}, {NoOutput})
    /\ call \in HeaderCalls
    /\ ret = None

call_header ==
    /\ call.fn = "header"
    /\ ret = None
    /\ ret' = Some(header(call))
    /\ UNCHANGED <<line_vars, log_source, at, why, child, stream, pipe, errbuf,
                   reported, produced, consumed, call>>

SpecHeader == InitHeader /\ [][call_header]_vars

----
\* The initial snapshot on its own: main's filters, then get_processes

\* what `adb shell ps` may list: processes of two packages, one of them a
\* colon-suffixed process
PsListings == UNION {[S -> {PkgA, PkgASvc, PkgB}] : S \in SUBSET Pids}

\* main's filters for every package list, with and without --all; the
\* snapshot is still to be taken
InitSnapshot ==
    /\ NotStarted({"process"})
    /\ InitState(WidePackageArgs, BOOLEAN, {VERBOSE}, {0}, {FALSE}, {None}, {None}, {<<>>}, {NoColumns}, {NoOutput})
    /\ call \in [fn : {"get_processes"}, ps : PsListings]
    /\ ret = None

call_get_processes ==
    /\ call.fn = "get_processes"
    /\ ret = None
    /\ ret' = Some(get_processes(call.ps, catchall_package, args.all))
    /\ UNCHANGED <<line_vars, log_source, at, why, child, stream, pipe, errbuf,
                   reported, produced, consumed, call>>

SpecSnapshot == InitSnapshot /\ [][call_get_processes]_vars

----
\* Properties

\* the Start event a line carries, if its package is of interest
InterestingStart(l) ==
    /\ get_started_process(l) # None
    /\ is_matching_package(get_started_process(l)[1].pkg,
                           named_processes, catchall_package)

\* the captures of a death-shaped message: the three shapes exclude each other
DeathShape(message) ==
    IF PID_KILL(message) # None THEN PID_KILL(message)
    ELSE IF PID_LEAVE(message) # None THEN PID_LEAVE(message)
    ELSE PID_DEATH(message)

\* C1: a line that matches a process-start shape (and is not noise) whose
\* package is of interest sets owner_map[pid] = package, makes pid the
\* active app identifier, clears last_tag, and writes a start banner and
\* nothing else.
C1_StartRecorded ==
    (InterestingStart(line) /\ ~NATIVE_TAGS_LINE(line)) =>
        LET started == get_started_process(line)[1]
        IN  /\ started.pid \in DOMAIN pids_map
            /\ pids_map[started.pid] = started.pkg
            /\ app_pid = Some(started.pid)
            /\ last_tag = None
            /\ wrote
            /\ out.kind = "start" /\ out.pid = started.pid

\* C2: a death line reported under tag ActivityManager for a pid that is a
\* key of owner_map (its package being of interest, the line carrying no
\* Start of interest) removes the pid from owner_map and resets last_tag.
C2_DeathRemoves ==
    [][ LET dead == DeathShape(line'.msg)
        IN  ( /\ line'.head.k = "rec"
              /\ line'.head.tag = TagActivityManager
              /\ ~NATIVE_TAGS_LINE(line')
              /\ ~InterestingStart(line')
              /\ dead # None
              /\ dead[1].pid \in DOMAIN pids_map
              /\ is_matching_package(dead[1].pkg, named_processes, catchall_package) )
            => ( dead[1].pid \notin DOMAIN pids_map' /\ last_tag' = None )
      ]_vars

\* C4: a line that matches a process-start shape but has not the record
\* shape still triggers record_start: owner_map is updated and a start
\* banner is written when the package is of interest.
C4_StartWithoutRecord ==
    (InterestingStart(line) /\ LOG_LINE(line) = None /\ ~NATIVE_TAGS_LINE(line)) =>
        LET started == get_started_process(line)[1]
        IN  /\ started.pid \in DOMAIN pids_map
            /\ pids_map[started.pid] = started.pkg
            /\ wrote /\ out.kind = "start" /\ out.pid = started.pid

\* C5: processing a line never panics, whatever uppercase letter is its level.
C5_NeverPanics == pc # "panicked"

\* C3: without show-all an ordinary Record is rendered only if its owner is a
\* key of owner_map when the line is processed, that is only between a Start
\* banner (or the snapshot) and the next Death banner of that pid.
C3_RenderedOnlyWhileTracked ==
    [][ (wrote' /\ out'.kind = "record" /\ ~args.all)
          => (out'.pid \in DOMAIN pids_map /\ out'.pid \in alive) ]_vars

\* a Record of the pid whose death banner was the last block, dropped
C3_Witness ==
    /\ ~args.all /\ pc = "loop" /\ ~wrote
    /\ out.kind = "death"
    /\ line.head.k = "rec" /\ line.msg.k = "plain"
    /\ line.head.pid = out.pid

\* C6: a death-shaped message removes no key and writes no death banner
\* unless the reporting tag is ActivityManager, the package is of interest
\* and the pid is a key of owner_map; the same death line processed again
\* right after its banner changes no owner and writes no second banner.
C6_DeathGuarded ==
    [][ /\ LET dead == DeathShape(line'.msg)
           IN  ( /\ dead # None
                 /\ ~( /\ line'.head.k = "rec"
                       /\ line'.head.tag = TagActivityManager
                       /\ is_matching_package(dead[1].pkg, named_processes,
                                              catchall_package)
                       /\ dead[1].pid \in DOMAIN pids_map ) )
               => ( /\ DOMAIN pids_map \subseteq DOMAIN pids_map'
                    /\ ~(wrote' /\ out'.kind = "death") )
        /\ (wrote /\ out.kind = "death" /\ line' = line)
               => (pids_map' = pids_map /\ ~(wrote' /\ out'.kind = "death"))
      ]_vars

\* the death line whose banner was the last block, processed once more
C6_Witness ==
    /\ pc = "loop" /\ ~wrote
    /\ line.head.k = "rec" /\ line.head.tag = TagActivityManager
    /\ DeathShape(line.msg) # None
    /\ out.kind = "death"
    /\ out.pid = DeathShape(line.msg)[1].pid
    /\ out.pkg = DeathShape(line.msg)[1].pkg
    /\ out.pid \notin DOMAIN pids_map

\* C7: the keys of owner_map are the pids the snapshot or a Start banner
\* introduced and no Death banner has reported since; a step changes the
\* keys only by adding the pid of the Start banner it writes or by removing
\* the pid of the Death banner it writes.
C7_KeysFromEvents ==
    /\ [](DOMAIN pids_map = alive)
    /\ [][ (DOMAIN pids_map' # DOMAIN pids_map) =>
             /\ wrote'
             /\ \/ /\ out'.kind = "start"
                   /\ DOMAIN pids_map' = DOMAIN pids_map \cup {out'.pid}
                \/ /\ out'.kind = "death"
                   /\ DOMAIN pids_map' = DOMAIN pids_map \ {out'.pid} ]_vars

\* a pid that a Start banner introduced and a Death banner removed again,
\* while another pid stays tracked
C7_Witness ==
    /\ wrote /\ out.kind = "death"
    /\ app_pid = Some(out.pid)
    /\ out.pid \notin DOMAIN pids_map
    /\ DOMAIN pids_map # {}

HasColon(t) == \E i \in 1..Len(t) : t[i] = ":"

\* the part of a token before its first ":"
BeforeFirstColon(t) ==
    LET k == CHOOSE n \in 0..(Len(t) - 1) :
                 t[n + 1] = ":" /\ \A j \in 1..n : t[j] # ":"
    IN  SubSeq(t, 1, k)

\* C8: is_matching_package(token) is true if both filter sets are empty;
\* otherwise true if the token is an entry of named_process_filters;
\* otherwise, for a token with ":", true iff the part before the first ":"
\* is in catchall_package_filters; otherwise true iff the whole token is.
C8_InterestPredicate ==
    \A t \in Tokens :
        is_matching_package(t, named_processes, catchall_package)
        <=> IF named_processes = {} /\ catchall_package = {} THEN TRUE
            ELSE IF t \in named_processes THEN TRUE
            ELSE IF HasColon(t) THEN BeforeFirstColon(t) \in catchall_package
            ELSE t \in catchall_package

\* a Start banner for a process "package:suffix" that is of interest only
\* through the catchall entry of its package
C8_Witness ==
    /\ wrote /\ out.kind = "start"
    /\ HasColon(out.pkg)
    /\ named_processes # {}
    /\ out.pkg \notin named_processes
    /\ BeforeFirstColon(out.pkg) \in catchall_package

\* a tag matches a filter list if it matches one of its filters: a literal
\* filter is contained in the tag, a pattern compiles and matches
TagMatches(tag, filters) ==
    \E i \in 1..Len(filters) :
        LET f == filters[i]
            pattern == IF f[1] = "^" THEN f ELSE <<"^">> \o f
        IN  IF \E j \in 1..Len(f) : f[j] \in regex_chars
            THEN Regex_new(pattern) # None /\ Regex_is_match(pattern, tag)
            ELSE contains(tag, f)

\* C9: a Record that is not handled as a Start or Death banner is rendered
\* iff show-all is set or its owner is tracked, its level is not below the
\* minimum level, its tag matches no ignore-tag filter, and no include-tag
\* filter is configured or its tag matches one.
C9_RecordFilters ==
    [][ ( /\ LOG_LINE(line') # None
          /\ ~NATIVE_TAGS_LINE(line')
          /\ ~(wrote' /\ out'.kind \in {"start", "death"}) )
        => LET rec == LOG_LINE(line')[1]
               level == LogLevel_from(rec.level)
           IN  ( wrote' /\ out'.kind = "record"
                        /\ out'.pid = rec.owner /\ out'.tag = rec.tag )
               <=> ( /\ args.all \/ rec.owner \in DOMAIN pids_map
                     /\ level # None
                     /\ level[1] >= args.log_level
                     /\ ~(args.ignore_tag # None
                            /\ TagMatches(rec.tag, args.ignore_tag[1]))
                     /\ (args.tag = None \/ TagMatches(rec.tag, args.tag[1])) )
      ]_vars

\* a Record whose tag matches an ignore filter and an include filter, dropped
C9_Witness ==
    /\ pc = "loop" /\ ~wrote
    /\ line.head.k = "rec" /\ line.msg.k = "plain"
    /\ args.all \/ line.head.pid \in DOMAIN pids_map
    /\ args.ignore_tag # None /\ TagMatches(line.head.tag, args.ignore_tag[1])
    /\ args.tag # None /\ TagMatches(line.head.tag, args.tag[1])

\* C10: with the tag column enabled a rendered Record shows a blank tag
\* column exactly when always-show is off and the block rendered before it
\* is a Record with the same tag, and a populated one otherwise (so after
\* any banner); both take tag_width characters, and a populated tag is the
\* new last_tag.
C10_TagSuppression ==
    [][ (wrote' /\ out'.kind = "record" /\ args.tag_width > 0)
        => /\ out'.tagcol \in {"populated", "blank"}
           /\ (out'.tagcol = "blank")
                <=> ( /\ ~args.always_show_tags
                      /\ out.kind = "record"
                      /\ out.tag = out'.tag )
           /\ out'.tagw = args.tag_width
           /\ (out'.tagcol = "populated" => last_tag' = Some(out'.tag))
      ]_vars

\* the second of two Records with the same tag, its tag column blank
C10_Witness ==
    /\ wrote /\ out.kind = "record"
    /\ out.tagcol = "blank"
    /\ last_tag = Some(out.tag)

\* the step wrote a Record and called get_token_color for it
StepCalls ==
    /\ wrote' /\ out'.kind = "record"
    /\ (args.show_pid \/ args.show_package \/ out'.tagcol = "populated")

\* the tokens that were given their color by a lookup
Assigned == DOMAIN known_tokens \ DOMAIN known_tags

\* every color of main's palette is the color of one assigned token and no
\* two assigned tokens share a color
PaletteExhausted ==
    /\ Cardinality(Assigned) = Len(tag_colors)
    /\ {known_tokens[t] : t \in Assigned} = {tag_colors[i] : i \in DOMAIN tag_colors}

\* C11: once all N palette colors have been assigned to N distinct tokens, a
\* fresh (N+1)th token receives the color of the least recently looked up of
\* those N tokens, whatever lookups came before (repeated lookups and
\* lookups of pre-seeded tokens included).
C11_ExhaustedPaletteReusesOldest ==
    [][(PaletteExhausted /\ StepCalls
          /\ colored'[1].token \notin DOMAIN known_tokens)
        => colored'[1].color = known_tokens[recent[1]]]_vars

\* C12: a lookup of the token that was also looked up just before, with no
\* lookup of another token in between, returns the color the earlier lookup
\* returned.
C12_RepeatedLookupSameColor ==
    [][(StepCalls /\ colored # <<>>
          /\ colored'[1].token = colored[Len(colored)].token)
        => colored'[1].color = colored[Len(colored)].color]_vars

\* a Record was written whose tag was also the token looked up just before
C12_Witness ==
    /\ wrote /\ out.kind = "record" /\ out.tagcol = "populated"
    /\ colored[1].repeat
    /\ colored[1].token \in FreshTags

\* C13: a lookup of a pre-seeded token returns its hand-picked color and
\* leaves the contents and the order of the palette as they were.
C13_PreseededLeavesPalette ==
    [][(StepCalls /\ colored'[1].token \in DOMAIN known_tags)
        => /\ colored'[1].color = known_tags[colored'[1].token]
           /\ token_colors' = token_colors]_vars

\* the patterns of a filter list that fail to compile
Malformed(filters) ==
    { IF filters[i][1] = "^" THEN filters[i] ELSE <<"^">> \o filters[i] :
        i \in {j \in 1..Len(filters) :
                 /\ \E k \in 1..Len(filters[j]) : filters[j][k] \in regex_chars
                 /\ Regex_new(IF filters[j][1] = "^" THEN filters[j]
                              ELSE <<"^">> \o filters[j]) = None} }

\* a filter list without its malformed patterns
WellFormed(filters) ==
    SelectSeq(filters, LAMBDA f :
        (IF f[1] = "^" THEN f ELSE <<"^">> \o f) \notin Malformed(filters))

\* the line is a Record with a known level that reaches the tag filters
ReachesTagFilters(l) ==
    /\ LOG_LINE(l) # None /\ ~NATIVE_TAGS_LINE(l)
    /\ LogLevel_from(l.head.level) # None
    /\ LogLevel_from(l.head.level)[1] >= args.log_level
    /\ args.all \/ l.head.pid \in DOMAIN pids_map
    /\ l.msg.k = "plain"

C17_FileSinkFailureTolerated ==
    pc = "panicked" => writers[1].broken

\* C19: when upstream ends or reads of its stream fail, the session ends
\* without a panic, and on every way out of the loop the diagnostics that
\* upstream wrote to its stderr are printed before the session ends.
C19_GracefulEndDrainsDiagnostics ==
    /\ pc # "panicked"
    /\ (at = "exit" /\ why \in {"exit_status", "eof"}
          /\ log_source = "process" /\ errbuf) => reported

\* C20: when the session ends, every line upstream wrote has been handed to
\* write_log_line, in the order upstream wrote them.
C20_NoLineLostAtShutdown ==
    (at = "exit" /\ why \in {"exit_status", "eof"}) => consumed = produced

\* get_wrapped_indent has returned
Wrapped == call.fn = "get_wrapped_indent" /\ ret # None

\* C14: stripping the escape sequences commutes with wrapping: wrapping the
\* stripped message gives the same text as stripping the wrapped message, for
\* every message and every width
C14_StripCommutesWithWrap ==
    Wrapped =>
        get_wrapped_indent(strip(call.message), call.show_colors, call.width,
                           call.header_width, call.same)
            = strip(ret[1])

\* the cases in which nothing is to be wrapped: the unbounded width, no
\* budget, or a message whose visible characters fit the budget
NothingToWrap ==
    \/ call.width = -1
    \/ saturating_sub(call.width, call.header_width) = 0
    \/ Len(strip(call.message)) <= saturating_sub(call.width, call.header_width)

\* C15: with the unbounded width, with a budget of zero, or with a message
\* that fits the budget, get_wrapped_indent returns the message it was given,
\* character for character, tabs and escape sequences included
C15_UnwrappedTextUnchanged ==
    (Wrapped /\ NothingToWrap) => ret[1] = call.message

\* a column value has been fitted to its column
Displayed == call.fn = "display" /\ ret # None

\* C16: a value of more characters than the column is wide is cut to width
\* minus ELLIPSIS_COUNT characters followed by the ellipsis, a value of at
\* most width characters is shown whole, and the field is exactly width
\* characters wide either way, multi-byte characters included
C16_TruncationByCharacterCount ==
    Displayed =>
        /\ ~ret[1].panicked
        /\ Len(ret[1].text) = call.width
        /\ Len(call.value) > call.width =>
              ret[1].text = Append(SubSeq(call.value, 1, call.width - ELLIPSIS_COUNT),
                                   ELLIPSIS)
        /\ Len(call.value) <= call.width =>
              SubSeq(ret[1].text, 1, Len(call.value)) = call.value

\* the colors in the palette
Palette == {token_colors[i] : i \in DOMAIN token_colors}

\* C21 as stated: a color is free or assigned, never both: no color that an
\* entry of known_tokens refers to is in token_colors
C21_AssignedNotInPalette ==
    \A t \in DOMAIN known_tokens : known_tokens[t] \notin Palette

\* C21 amended: assigning a color never takes it out of the palette: every
\* color of main's palette stays in token_colors, and so does the color of
\* every token that a lookup assigned
C21_AssignedStaysInPalette ==
    /\ \A i \in DOMAIN tag_colors : tag_colors[i] \in Palette
    /\ \A t \in Assigned : known_tokens[t] \in Palette

\* two tokens have been assigned their colors
C21_Witness ==
    /\ Cardinality(Assigned) >= 2
    /\ wrote /\ out.kind = "record" /\ colored[1].token \in Assigned

\* a sequence of colors without color c
without(colors, c) == SelectSeq(colors, LAMBDA x : x # c)

\* a sequence that holds nothing twice
no_repeats(colors) ==
    \A i, j \in DOMAIN colors : colors[i] = colors[j] => i = j

\* C22: after a lookup whose returned color had a position in the palette,
\* that color is the last element of the palette, the other colors keep
\* their relative order, and the palette holds no color twice.
C22_MoveToBack ==
    [][(StepCalls /\ colored'[1].color \in Palette)
        => /\ token_colors'[Len(token_colors')] = colored'[1].color
           /\ without(token_colors', colored'[1].color)
                = without(token_colors, colored'[1].color)
           /\ no_repeats(token_colors')]_vars

\* a token assigned earlier was looked up again after two other tokens, and
\* its color is at the back of the palette
C22_Witness ==
    /\ wrote /\ out.kind = "record" /\ out.tagcol = "populated"
    /\ ~colored[1].repeat
    /\ Len(recent) >= 3 /\ recent[Len(recent)] = colored[1].token
    /\ \E i \in 1..(Len(token_colors) - 1) :
          token_colors[i] = known_tokens[recent[1]]
    /\ token_colors[Len(token_colors)] = colored[1].color

\* C30: token colors are stable for the session: no entry of known_tokens
\* is ever overwritten or removed, and a lookup of a token that has an entry
\* returns the color of that entry, whatever was looked up in between.
C30_TokenColorsStable ==
    [][/\ \A t \in DOMAIN known_tokens :
             t \in DOMAIN known_tokens' /\ known_tokens'[t] = known_tokens[t]
       /\ (StepCalls /\ colored'[1].token \in DOMAIN known_tokens)
             => colored'[1].color = known_tokens[colored'[1].token]]_vars

\* the first fresh tag was looked up again after a later tag had been
\* assigned its color
C30_Witness ==
    /\ wrote /\ out.kind = "record" /\ out.tagcol = "populated"
    /\ colored[1].token = FreshTag(1) /\ ~colored[1].repeat
    /\ FreshTag(3) \in DOMAIN known_tokens
    /\ colored[1].color = tag_colors[1]

\* C29: a line that produces no output (noise, a line that is no Record, or
\* a Record dropped by the inclusion, severity, ignore-tag or include-tag
\* check) leaves pids_map, last_tag, app_pid, token_colors and known_tokens
\* as they were.
C29_DroppedLineKeepsState ==
    [][(pc' = "loop" /\ ~wrote')
        => UNCHANGED <<pids_map, last_tag, app_pid, token_colors, known_tokens>>]_vars

\* a Record under another tag than the one written last was dropped, after
\* a token had been assigned a color
C29_Witness ==
    /\ pc = "loop" /\ ~wrote
    /\ LOG_LINE(line) # None /\ ~NATIVE_TAGS_LINE(line)
    /\ last_tag # None /\ last_tag # Some(line.head.tag)
    /\ Assigned # {}

\* the line is a Record with a known level: write_log_line hands it to
\* write_started_process
ReachesBanners(l) ==
    /\ LOG_LINE(l) # None /\ ~NATIVE_TAGS_LINE(l)
    /\ LogLevel_from(l.head.level) # None

\* C27: write_started_process asks for a banner exactly when the line has a
\* start shape and the started package satisfies is_matching_package; a
\* start line of another package leaves pids_map, app_pid and last_tag to
\* the rest of write_log_line and writes no banner: the line goes on to the
\* death check and then to the Record checks.
C27_StartHandlerReport ==
    [][ReachesBanners(line') =>
        LET l    == line'
            rec  == LOG_LINE(l)[1]
            dead == get_dead_process(rec.tag, rec.message, DOMAIN pids_map,
                                     named_processes, catchall_package)
        IN  /\ (pc' = "loop" /\ wrote' /\ out'.kind = "start") <=> InterestingStart(l)
            /\ (get_started_process(l) # None /\ ~InterestingStart(l)) =>
                  /\ app_pid' = app_pid
                  /\ IF dead # None
                     THEN wrote' /\ out'.kind = "death"
                     ELSE /\ pids_map' = pids_map
                          /\ wrote' <=>
                               /\ args.all \/ rec.owner \in DOMAIN pids_map
                               /\ LogLevel_from(rec.level)[1] >= args.log_level
                               /\ ~(args.ignore_tag # None
                                      /\ TagMatches(rec.tag, args.ignore_tag[1]))
                               /\ args.tag = None \/ TagMatches(rec.tag, args.tag[1])
                          /\ wrote' => out'.kind = "record"
                          /\ ~wrote' => last_tag' = last_tag
       ]_vars

\* a start line of a package that is not of interest was written as an
\* ordinary Record
C27_Witness ==
    /\ wrote /\ out.kind = "record"
    /\ get_started_process(line) # None /\ ~InterestingStart(line)

\* C28: the initial snapshot uses the interest predicate of the Start
\* handler: a listed process is a key of the initial pids_map iff show-all is
\* set or its name satisfies is_matching_package (colon-suffixed processes of
\* a catchall package and exactly named processes included).
C28_SnapshotUsesInterestPredicate ==
    (call.fn = "get_processes" /\ ret # None) =>
        \A p \in DOMAIN call.ps :
            p \in DOMAIN ret[1]
            <=> \/ args.all
                \/ is_matching_package(call.ps[p], named_processes, catchall_package)

\* the header of a Record has been composed
Composed == call.fn = "header" /\ ret # None

\* C25: after the header of a Record is composed, header_width equals the
\* number of visible characters written for the header: it was advanced by
\* the field width and one for every field written (pid, package, tag,
\* level badge).
C25_HeaderWidthIsEmitted ==
    (Composed /\ ~ret[1].panicked) => ret[1].header_width = ret[1].emitted

\* C26: composing an enabled pid, package or tag column never panics and
\* never computes width - ELLIPSIS_COUNT below zero, for every column width
\* from 0 on and every value.
C26_ColumnsNeverUnderflow ==
    Composed => ~ret[1].panicked /\ ~ret[1].underflow

\* the rows of a text: its parts between line feeds
RECURSIVE rows(_)
rows(text) ==
    IF \A i \in DOMAIN text : text[i] # NL THEN <<text>>
    ELSE LET k == CHOOSE i \in DOMAIN text : text[i] = NL /\ \A j \in 1..(i - 1) : text[j] # NL
         IN  <<SubSeq(text, 1, k - 1)>> \o rows(SubSeq(text, k + 1, Len(text)))

\* the visible characters of the chunks of a wrapped text: the first row as
\* it is, the later rows without the indentation, the connector (three
\* characters, or four spaces) and the space
chunks(wrapped, header_width, same) ==
    LET rs     == rows(wrapped)
        margin == saturating_sub(header_width, 5) + (IF same THEN 4 ELSE 3) + 1
    IN  [i \in DOMAIN rs |->
            IF i = 1 THEN strip(rs[i])
            ELSE SubSeq(strip(rs[i]), margin + 1, Len(strip(rs[i])))]

\* the budget of the call and the visible text of its message
budget == saturating_sub(call.width, call.header_width)
visible == strip(replace_tabs(call.message))

\* get_wrapped_indent has returned and had to wrap
WrappedInChunks ==
    /\ Wrapped /\ call.width # -1
    /\ budget >= 1 /\ Len(visible) > budget

\* C24: wrapping n > b visible characters with a budget b >= 1 ends and gives
\* ceil(n / b) chunks; every chunk but the last has b visible characters,
\* and the visible characters of the chunks, in order, are the plain text.
C24_ChunksPartitionText ==
    WrappedInChunks =>
        LET ch == chunks(ret[1], call.header_width, call.same)
            n  == Len(visible)
        IN  /\ Len(ch) = (n + budget - 1) \div budget
            /\ \A i \in 1..(Len(ch) - 1) : Len(ch[i]) = budget
            /\ Len(ch[Len(ch)]) \in 1..budget
            /\ concat(ch) = visible

\* the chunks of a wrapped text as they were written, codes included: each
\* row without the reset that ends it and, from the second row on, without
\* the indentation, the connector and the space, colored or not
written_chunks(wrapped, c) ==
    LET rs        == rows(wrapped)
        indent    == saturating_sub(c.header_width, 5)
        connector == IF c.same THEN 4 ELSE 3
        margin    == (IF c.same THEN Len(colorize(spaces(indent))) ELSE indent)
                     + (IF c.show_colors THEN connector + Len(colorize(<<>>))
                        ELSE connector)
                     + 1
    IN  [i \in DOMAIN rs |->
            SubSeq(rs[i], (IF i = 1 THEN 0 ELSE margin) + 1, Len(rs[i]) - Len(RESET))]

\* what a written chunk holds before its first visible character
leading(chunk) ==
    LET first == CHOOSE k \in DOMAIN chunk :
                     /\ strip(SubSeq(chunk, 1, k)) # <<>>
                     /\ strip(SubSeq(chunk, 1, k - 1)) = <<>>
    IN  SubSeq(chunk, 1, first - 1)

\* the sequences in force before visible position pos: those issued after
\* the last reset before pos
RECURSIVE in_force(_, _, _, _)
in_force(segments, idx, pos, active) ==
    IF idx > Len(segments) \/ segments[idx].visible_pos >= pos THEN active
    ELSE in_force(segments, idx + 1, pos,
                  IF segments[idx].code = RESET THEN <<>>
                  ELSE Append(active, segments[idx].code))

\* the sequences located at visible position pos
located_at(segments, pos) ==
    LET at_pos == SelectSeq(segments, LAMBDA seg : seg.visible_pos = pos)
    IN  [i \in DOMAIN at_pos |-> at_pos[i].code]

\* C23: every continuation chunk starts with exactly the sequences in force
\* at its start (the non-reset sequences issued after the most recent reset,
\* none if a reset came last), whatever the color codes are, followed by the
\* sequences located at the chunk boundary; the chunk before it ends with
\* its last visible character and so does not hold them too.
C23_StylingContinues ==
    (WrappedInChunks /\ \A i \in DOMAIN call.message : call.message[i] # "~") =>
        LET written  == written_chunks(ret[1], call)
            segments == get_ansi_segments(replace_tabs(call.message))
        IN  \A j \in 2..Len(written) :
                /\ leading(written[j])
                     = concat(in_force(segments, 1, (j - 1) * budget, <<>>))
                       \o concat(located_at(segments, (j - 1) * budget))
                /\ Len(strip(SubSeq(written[j - 1], 1, Len(written[j - 1]) - 1)))
                     = Len(strip(written[j - 1])) - 1

====
